---- MODULE Spec2Model ----
(***************************************************************************)
(* Model of arena_demo: the SPSC ring buffer (pkg/fastqueue), the bump     *)
(* arena (pkg/arena), the logger (pkg/zlog), the cached clock              *)
(* (pkg/sysclock) and the worker engine (pkg/core), with the submission    *)
(* side of main.go.                                                        *)
(*                                                                         *)
(* Push and Pop are modelled one shared-memory access per action, so the   *)
(* producer(s) and the consumer interleave at the level of the atomic      *)
(* loads, the slot copy and the atomic increments of queue.go.             *)
(***************************************************************************)
EXTENDS Integers, Sequences, FiniteSets, TLC

\* ------------------------------------------------------------------ bounds
\* log2 of the capacity given to fastqueue.New (the engine passes 1024)
SizeLog2 == 1
\* modelled width of the uint64 indices head and tail
IdxBits == 3
\* number of Push calls (each call creates its own Resp channel)
MaxTasks == 3
\* number of ticks of the background clock
MaxTicks == 1
\* number of Push calls when two handlers push at once
MPTasks == 2
\* len(a.buf) of the arena used through the package API (the pool makes 64MB)
BufLen == 3
\* largest capacity given to MakeSlice (the smallest is -1)
MaxCap == 1
\* largest length given to MakeSlice
MaxLen == 0
\* number of spans handed out between two resets
MaxSpans == 2
\* modelled width of int (64 on the build the handlers run on)
IntBits == 12
\* number of Push calls when the tasks are of every kind the Task type allows
WideTasks == 2
\* number of Push calls when the worker loop is followed to its end
LoopTasks == 2

\* --------------------------------------------------------- program constants
TaskTypeCalc == 0
TaskTypeOrder == 1
\* len(UserVolume) - 1, the mask of process
UserMask == 1023
\* capacity of the completion channel made by the handlers
RespCap == 1
\* size of the pooled arena block
PoolBufLen == 64 * 1024 * 1024
\* unsafe.Sizeof(int) and unsafe.Alignof(int) on the 64-bit build
IntSize == 8
IntAlign == 8
\* capacity of the log buffer handleOrder makes
LogBufCap == 1024

RECURSIVE Pow2(_)
Pow2(n) == IF n = 0 THEN 1 ELSE 2 * Pow2(n - 1)

\* uint64 arithmetic at the modelled width
IdxMod == Pow2(IdxBits)
U(x) == x % IdxMod

\* a & b for b >= 0, bit by bit (two's complement for a negative a)
RECURSIVE AndNat(_, _)
AndNat(a, b) ==
  IF a = 0 \/ b = 0 THEN 0
  ELSE 2 * AndNat(a \div 2, b \div 2) + (IF a % 2 = 1 /\ b % 2 = 1 THEN 1 ELSE 0)

BitAnd(a, b) == IF a >= 0 THEN AndNat(a, b) ELSE AndNat(a % (2 * (b + 1)), b)

\* int arithmetic at the modelled width: a result out of range wraps around
MinInt == 0 - Pow2(IntBits - 1)
MaxInt == Pow2(IntBits - 1) - 1
WrapInt(x) == ((x - MinInt) % Pow2(IntBits)) + MinInt

\* -------------------------------------------------------------- fastqueue.New
size == Pow2(SizeLog2)
mask == size - 1
Slots == 0 .. (size - 1)

\* --------------------------------------------------------------------- Task
NilChan == 0
ChanIds == 1 .. MaxTasks

\* a []byte: the array it points into (NilMem for the nil slice, HeapMem for an
\* array append allocated, c for the array the handler of request c made), its
\* capacity and its bytes
NilMem == 0
HeapMem == 0 - 1
NilBuf == [mem |-> NilMem, cap |-> 0, bytes |-> ""]

\* make([]byte, 0, capacity) in the handler of request c
MakeBuf(c, capacity) == [mem |-> c, cap |-> capacity, bytes |-> ""]

\* the zero value of Task, which make([]T, size) puts in every slot
ZeroTask ==
  [Type |-> 0, Value |-> 0, Price |-> 0, Quantity |-> 0,
   Resp |-> NilChan, LogBuf |-> NilBuf]

\* the tasks the submission side builds (handleCalc, handleOrder) and one task
\* whose Type is neither constant (Type is a plain int); the order uid is one
\* above the 1023 the mask keeps
CalcValues == {50}
OrderUids == {1025}
OrderPrices == {100}
OrderQuantities == {5}
OtherTypes == {2}

\* the scale task built without its completion channel
CalcTask_NoChan(val, ch) ==
  [Type |-> TaskTypeCalc, Value |-> val, Price |-> 0, Quantity |-> 0,
   Resp |-> NilChan, LogBuf |-> NilBuf]

CalcTask(val, ch) ==
  [Type |-> TaskTypeCalc, Value |-> val, Price |-> 0, Quantity |-> 0,
   Resp |-> ch, LogBuf |-> NilBuf]

OrderTaskBuf(price, qty, uid, ch, logBuf) ==
  [Type |-> TaskTypeOrder, Value |-> uid, Price |-> price, Quantity |-> qty,
   Resp |-> ch, LogBuf |-> logBuf]

OrderTask(price, qty, uid, ch) ==
  OrderTaskBuf(price, qty, uid, ch, MakeBuf(ch, LogBufCap))

OtherTask(ty, ch) ==
  [Type |-> ty, Value |-> 0, Price |-> 0, Quantity |-> 0,
   Resp |-> ch, LogBuf |-> NilBuf]

TaskInputs(ch) ==
  {CalcTask(v, ch) : v \in CalcValues}
    \cup {OrderTask(p, q, u, ch) : p \in OrderPrices, q \in OrderQuantities, u \in OrderUids}
    \cup {OtherTask(ty, ch) : ty \in OtherTypes}

\* tasks of every kind the exported Task type allows: values up to the ends of
\* int, ids outside 0..1023, a nil log buffer and log buffers of several
\* capacities
WideCalcValues == {50, 0 - 3, Pow2(IntBits - 2)}
WideUids == {1, 1025, 0 - 1}
WideLogCaps == {0, 8}

WideInputs(ch) ==
  {CalcTask(v, ch) : v \in WideCalcValues}
    \cup {OrderTask(100, 5, u, ch) : u \in WideUids}
    \cup {OrderTask(3, 0 - 2, 1, ch)}
    \cup {OrderTaskBuf(100, 5, 1, ch, MakeBuf(ch, c)) : c \in WideLogCaps}
    \cup {OrderTaskBuf(100, 5, 1, ch, NilBuf)}
    \cup {OtherTask(ty, ch) : ty \in OtherTypes}

\* the struct copy rb.buffer[i] = item is not atomic: it is modelled as two
\* halves that may land in either order
Halves == {"scalars", "refs"}
WriteHalf(slot, item, h) ==
  IF h = "scalars"
  THEN [slot EXCEPT !.Type = item.Type, !.Value = item.Value,
                    !.Price = item.Price, !.Quantity = item.Quantity]
  ELSE [slot EXCEPT !.Resp = item.Resp, !.LogBuf = item.LogBuf]

\* ------------------------------------------------------------ RingBuffer.Push
\* the full test off by one
PushFull_OffByOne(h, t) == U(h - t) > size

\* the full test left out
PushFull_Never(h, t) == FALSE

\* if head-tail >= rb.size { return false }
PushFull(h, t) == U(h - t) >= size

\* the slot after the one head names
PushSlot_Next(h) == BitAnd(h + 1, mask)

\* rb.buffer[head&rb.mask]
PushSlot(h) == BitAnd(h, mask)

\* ------------------------------------------------------------- RingBuffer.Pop
\* the empty test off by one
PopEmpty_OffByOne(h, t) == t > h

\* if tail >= head { return empty, false }
PopEmpty(h, t) == t >= h

\* the slot after the one tail names
PopSlot_Next(t) == BitAnd(t + 1, mask)

\* rb.buffer[tail&rb.mask]
PopSlot(t) == BitAnd(t, mask)

\* atomic.AddUint64(&x, 1)
AddUint64(x) == U(x + 1)

\* a plain store of the local copy plus one, which loses a concurrent increment
PushNewHead_Store(cur, loaded) == U(loaded + 1)

\* the value of rb.head after Push's atomic.AddUint64(&rb.head, 1)
PushNewHead(cur, loaded) == AddUint64(cur)

\* ---------------------------------------------------------------------- arena
\* Go's % truncates toward zero
GoRem(a, b) ==
  IF a >= 0 THEN a % b ELSE 0 - ((0 - a) % b)

\* padding := (align - (a.offset % align)) % align
Padding(offset, align) == GoRem(align - GoRem(offset, align), align)

\* if a.offset+padding+size > len(a.buf) { panic("arena: out of memory") }
OutOfMemory(offset, buflen, sz, align) ==
  offset + Padding(offset, align) + sz > buflen

\* ----------------------------------------------------------------------- zlog
Digits == <<"0", "1", "2", "3", "4", "5", "6", "7", "8", "9">>

RECURSIVE FormatNat(_)
FormatNat(n) ==
  IF n < 10 THEN Digits[n + 1] ELSE FormatNat(n \div 10) \o Digits[(n % 10) + 1]

\* strconv.FormatInt(i, 10)
FormatInt(i) == IF i < 0 THEN "-" \o FormatNat(0 - i) ELSE FormatNat(i)

\* the capacity append gives the array it allocates: twice the old one, or what
\* is needed when that is more
GrowCap(oldCap, needed) == IF needed > 2 * oldCap THEN needed ELSE 2 * oldCap

\* append(b, s...): in place while the capacity allows, else into a new array
AppendTo(b, s) ==
  IF Len(b.bytes) + Len(s) <= b.cap
  THEN [b EXCEPT !.bytes = @ \o s]
  ELSE [mem |-> HeapMem, cap |-> GrowCap(b.cap, Len(b.bytes) + Len(s)),
        bytes |-> b.bytes \o s]

\* append(buf, s...), with the slice expression buf evaluated once
GoAppend(buf, s) == CHOOSE r \in {AppendTo(b, s) : b \in {buf}} : TRUE

\* l.buf = strconv.AppendInt(l.buf, int64(i), 10)
appendInt(buf, i) == GoAppend(buf, FormatInt(i))

\* l.buf = append(l.buf, s...)
appendString(buf, s) == GoAppend(buf, s)

\* Wrap(buf) and l.Bytes()
Wrap(buf) == [buf |-> buf]
Bytes(l) == l.buf

LogInt(buf, key, val) ==
  appendString(appendInt(appendString(appendString(buf, key), "="), val), " ")

\* Str without the space that ends the token
LogStr_NoSpace(buf, key, val) ==
  appendString(appendString(appendString(buf, key), "="), val)

LogStr(buf, key, val) ==
  appendString(appendString(appendString(appendString(buf, key), "="), val), " ")

LogMsg(buf, msg) ==
  appendString(appendString(appendString(buf, "msg="), msg), "\n")

\* -------------------------------------------------------------------- state
AllProducers == {1, 2}

VARIABLES
  producers,   \* the goroutines that call Push
  buffer,      \* rb.buffer
  head,        \* rb.head
  tail,        \* rb.tail
  ppc,         \* position of each producer inside Push
  phead,       \* Push's local head
  ptail,       \* Push's local tail
  pitem,       \* Push's argument
  phalf,       \* the half of the slot copy Push has done
  pret,        \* what the producer's last Push returned
  pcall,       \* head, tail and buffer when the last Push read the indices
  nextId,      \* the next Resp channel to be made
  pushed,      \* items of the Pushes that returned true, in order
  pushedIdx,   \* the index each of them wrote at
  popped,      \* items returned by the Pops that returned true, in order
  poppedIdx,   \* the index each of them read at
  wpc,         \* position of the worker goroutine
  whead,       \* Pop's local head
  wtail,       \* Pop's local tail
  witem,       \* Pop's local item, then process's argument t
  wret,        \* what the worker's last Pop returned
  wres,        \* the value process is about to send
  Mem,         \* e.Mem: the cursor of the worker's arena
  UserVolume,  \* e.UserVolume: the slots written so far (the others hold 0)
  nowNano,     \* sysclock.nowNano
  ticks,       \* ticks of the background clock so far
  chans,       \* contents of each Resp channel
  sends,       \* number of sends process made on each Resp channel
  handled,     \* tasks process returned from, in order
  received,    \* what the caller waiting on each Resp channel received
  arena,       \* an Arena used through the package API: buf and offset
  held,        \* whether the arena is out of arenaPool (Acquire .. Release)
  spans,       \* spans New and MakeSlice returned since the last reset, in order
  last,        \* the last call on the arena and how it ended
  stale,       \* whether the span it returned held a nonzero byte before the call
  logger,      \* a zlog.Logger used on its own
  lbase,       \* the buffer it was given by Wrap
  lcalls,      \* the calls made on it since, in order
  lret,        \* what the last of them returned
  hist         \* the last two calls of a goroutine using the queue on its own

qvars == <<producers, buffer, head, tail, ppc, phead, ptail, pitem, phalf, pret,
           pcall, nextId, pushed, pushedIdx, popped, poppedIdx>>
wvars == <<wpc, whead, wtail, witem, wret, wres, Mem, UserVolume, nowNano, ticks,
           chans, sends, handled, received>>
avars == <<arena, held, spans, last, stale>>
lvars == <<logger, lbase, lcalls, lret>>
svars == <<hist>>
vars == <<qvars, wvars, avars, lvars, svars>>

NoCall == [head |-> 0, tail |-> 0, buffer |-> <<>>]

InitProducerState ==
  /\ ppc = [p \in AllProducers |-> "idle"]
  /\ phead = [p \in AllProducers |-> 0]
  /\ ptail = [p \in AllProducers |-> 0]
  /\ pitem = [p \in AllProducers |-> ZeroTask]
  /\ phalf = [p \in AllProducers |-> "none"]
  /\ pret = [p \in AllProducers |-> "none"]
  /\ pcall = [p \in AllProducers |-> NoCall]
  /\ nextId = 1

\* NewEngine, Start, and sysclock's init
InitEngine ==
  /\ wpc = "poll"
  /\ whead = 0
  /\ wtail = 0
  /\ witem = ZeroTask
  /\ wret = "none"
  /\ wres = <<>>
  /\ Mem = [offset |-> 0]
  /\ UserVolume = [i \in {} |-> 0]
  /\ nowNano = 1
  /\ ticks = 0
  /\ chans = [c \in ChanIds |-> <<>>]
  /\ sends = [c \in ChanIds |-> 0]
  /\ handled = <<>>
  /\ received = [c \in ChanIds |-> <<>>]

InitQueue ==
  /\ buffer = [i \in Slots |-> ZeroTask]
  /\ head = 0
  /\ tail = 0
  /\ pushed = <<>>
  /\ pushedIdx = <<>>
  /\ popped = <<>>
  /\ poppedIdx = <<>>

\* arenaPool.New, scaled to BufLen bytes, taken out of the pool by Acquire
FreshArena == [buf |-> [i \in 1 .. BufLen |-> 0], offset |-> 0]
NoOp == [op |-> "none", outcome |-> "ok", size |-> 0, align |-> 1, shape |-> TRUE]

InitArenaState ==
  /\ arena = FreshArena
  /\ held = TRUE
  /\ spans = <<>>
  /\ last = NoOp
  /\ stale = FALSE

\* a Logger wrapping the nil slice, and no call on the queue yet
InitLoggerState ==
  /\ logger = Wrap(NilBuf)
  /\ lbase = NilBuf
  /\ lcalls = <<>>
  /\ lret = "none"

InitAlone ==
  /\ InitLoggerState
  /\ hist = <<>>

\* one producer, one consumer
Init ==
  /\ producers = {1}
  /\ InitQueue
  /\ InitProducerState
  /\ InitEngine
  /\ InitArenaState
  /\ InitAlone

\* -------------------------------------------------------------- Push, by step
\* Push(item): head := atomic.LoadUint64(&rb.head)
PushItem(p, item) ==
  /\ ppc[p] = "idle"
  /\ nextId <= MaxTasks
  /\ pitem' = [pitem EXCEPT ![p] = item]
  /\ nextId' = nextId + 1
  /\ phead' = [phead EXCEPT ![p] = head]
  /\ ppc' = [ppc EXCEPT ![p] = "load_tail"]
  /\ pret' = [pret EXCEPT ![p] = "none"]
  /\ UNCHANGED <<producers, buffer, head, tail, ptail, phalf, pcall,
                 pushed, pushedIdx, popped, poppedIdx>>
  /\ UNCHANGED wvars
  /\ UNCHANGED avars
  /\ UNCHANGED <<lvars, svars>>

\* a handler pushes the task it has just built
PushLoadHead(p) == \E item \in TaskInputs(nextId) : PushItem(p, item)

\* tail := atomic.LoadUint64(&rb.tail); if head-tail >= rb.size { return false }
PushLoadTail(p) ==
  /\ ppc[p] = "load_tail"
  /\ ptail' = [ptail EXCEPT ![p] = tail]
  /\ pcall' = [pcall EXCEPT ![p] = [head |-> head, tail |-> tail, buffer |-> buffer]]
  /\ IF PushFull(phead[p], tail)
     THEN /\ pret' = [pret EXCEPT ![p] = "false"]
          /\ ppc' = [ppc EXCEPT ![p] = "idle"]
     ELSE /\ pret' = pret
          /\ ppc' = [ppc EXCEPT ![p] = "write"]
  /\ UNCHANGED <<producers, buffer, head, tail, phead, pitem, phalf, nextId,
                 pushed, pushedIdx, popped, poppedIdx>>
  /\ UNCHANGED wvars
  /\ UNCHANGED avars
  /\ UNCHANGED <<lvars, svars>>

\* rb.buffer[head&rb.mask] = item, first half
PushWrite(p) ==
  /\ ppc[p] = "write"
  /\ \E h \in Halves :
       /\ buffer' = [buffer EXCEPT ![PushSlot(phead[p])] = WriteHalf(@, pitem[p], h)]
       /\ phalf' = [phalf EXCEPT ![p] = h]
  /\ ppc' = [ppc EXCEPT ![p] = "write2"]
  /\ UNCHANGED <<producers, head, tail, phead, ptail, pitem, pret, pcall, nextId,
                 pushed, pushedIdx, popped, poppedIdx>>
  /\ UNCHANGED wvars
  /\ UNCHANGED avars
  /\ UNCHANGED <<lvars, svars>>

\* rb.buffer[head&rb.mask] = item, second half
PushWrite2(p) ==
  /\ ppc[p] = "write2"
  /\ \E h \in Halves \ {phalf[p]} :
       buffer' = [buffer EXCEPT ![PushSlot(phead[p])] = WriteHalf(@, pitem[p], h)]
  /\ phalf' = [phalf EXCEPT ![p] = "none"]
  /\ ppc' = [ppc EXCEPT ![p] = "add"]
  /\ UNCHANGED <<producers, head, tail, phead, ptail, pitem, pret, pcall, nextId,
                 pushed, pushedIdx, popped, poppedIdx>>
  /\ UNCHANGED wvars
  /\ UNCHANGED avars
  /\ UNCHANGED <<lvars, svars>>

\* atomic.AddUint64(&rb.head, 1); return true
PushAdd(p) ==
  /\ ppc[p] = "add"
  /\ head' = PushNewHead(head, phead[p])
  /\ pret' = [pret EXCEPT ![p] = "true"]
  /\ ppc' = [ppc EXCEPT ![p] = "idle"]
  /\ pushed' = Append(pushed, pitem[p])
  /\ pushedIdx' = Append(pushedIdx, phead[p])
  /\ UNCHANGED <<producers, buffer, tail, phead, ptail, pitem, phalf, pcall, nextId,
                 popped, poppedIdx>>
  /\ UNCHANGED wvars
  /\ UNCHANGED avars
  /\ UNCHANGED <<lvars, svars>>

Push(p) ==
  \/ PushLoadHead(p)
  \/ PushLoadTail(p)
  \/ PushWrite(p)
  \/ PushWrite2(p)
  \/ PushAdd(p)

\* --------------------------------------------------------------- Pop, by step
\* task, ok := e.Queue.Pop(): head := atomic.LoadUint64(&rb.head)
PopLoadHead ==
  /\ wpc = "poll"
  /\ whead' = head
  /\ wret' = "none"
  /\ wpc' = "load_tail"
  /\ UNCHANGED qvars
  /\ UNCHANGED avars
  /\ UNCHANGED <<lvars, svars>>
  /\ UNCHANGED <<wtail, witem, wres, Mem, UserVolume, nowNano, ticks, chans,
                 sends, handled, received>>

\* tail := atomic.LoadUint64(&rb.tail); if tail >= head { return empty, false }
\* and then, in Start: runtime.Gosched(); continue
PopLoadTail ==
  /\ wpc = "load_tail"
  /\ wtail' = tail
  /\ IF PopEmpty(whead, tail)
     THEN wret' = "empty" /\ wpc' = "poll"
     ELSE wret' = "item" /\ wpc' = "read"
  /\ UNCHANGED qvars
  /\ UNCHANGED avars
  /\ UNCHANGED <<lvars, svars>>
  /\ UNCHANGED <<whead, witem, wres, Mem, UserVolume, nowNano, ticks, chans,
                 sends, handled, received>>

\* item := rb.buffer[tail&rb.mask]
PopRead ==
  /\ wpc = "read"
  /\ witem' = buffer[PopSlot(wtail)]
  /\ wpc' = "add"
  /\ UNCHANGED qvars
  /\ UNCHANGED avars
  /\ UNCHANGED <<lvars, svars>>
  /\ UNCHANGED <<whead, wtail, wret, wres, Mem, UserVolume, nowNano, ticks, chans,
                 sends, handled, received>>

\* atomic.AddUint64(&rb.tail, 1); return item, true
PopAdd ==
  /\ wpc = "add"
  /\ tail' = AddUint64(tail)
  /\ popped' = Append(popped, witem)
  /\ poppedIdx' = Append(poppedIdx, wtail)
  /\ wpc' = "process"
  /\ UNCHANGED <<producers, buffer, head, ppc, phead, ptail, pitem, phalf, pret,
                 pcall, nextId, pushed, pushedIdx>>
  /\ UNCHANGED avars
  /\ UNCHANGED <<lvars, svars>>
  /\ UNCHANGED <<whead, wtail, witem, wret, wres, Mem, UserVolume, nowNano, ticks,
                 chans, sends, handled, received>>

Pop ==
  \/ PopLoadHead
  \/ PopLoadTail
  \/ PopRead
  \/ PopAdd

\* -------------------------------------------------------------- Engine.process
\* e.UserVolume[i], a [1024]float64 kept as the map of the slots written so far
VolumeAt(uv, i) == IF i \in DOMAIN uv THEN uv[i] ELSE 0

\* e.UserVolume[i] += x
AddVolume(uv, i, x) ==
  [j \in (DOMAIN uv) \cup {i} |-> VolumeAt(uv, j) + (IF j = i THEN x ELSE 0)]

\* the values process sends on Resp (a chan any): an int, or an OrderResult
IntResult(n) ==
  [kind |-> "int", Int |-> n, Total |-> 0, ProcessedAt |-> 0, Log |-> NilBuf]

OrderResult(total, ts, logBytes) ==
  [kind |-> "OrderResult", Int |-> 0, Total |-> total, ProcessedAt |-> ts,
   Log |-> logBytes]

\* the log record of the order branch: nil unless t.LogBuf != nil
OrderLog(logBuf, ts, userID) ==
  IF logBuf.mem = NilMem THEN NilBuf
  ELSE LogMsg(LogInt(LogStr(LogInt(logBuf, "ts", ts), "type", "order"),
                     "uid", userID), "processed")

\* process up to its send: the handler body on the worker's own state
Process ==
  /\ wpc = "process"
  /\ IF witem.Type = TaskTypeCalc
     THEN \* tempPtr := arena.New[int](e.Mem); *tempPtr = t.Value * 2
          /\ ~OutOfMemory(Mem.offset, PoolBufLen, IntSize, IntAlign)
          /\ Mem' = [offset |-> Mem.offset + Padding(Mem.offset, IntAlign) + IntSize]
          /\ UserVolume' = AddVolume(UserVolume, 0, WrapInt(witem.Value * 2))
          /\ wres' = <<IntResult(WrapInt(witem.Value * 2))>>
          /\ wpc' = "send"
     ELSE IF witem.Type = TaskTypeOrder
     THEN /\ UserVolume' = AddVolume(UserVolume, BitAnd(witem.Value, UserMask),
                                     witem.Price * witem.Quantity)
          /\ wres' = <<OrderResult(witem.Price * witem.Quantity, nowNano,
                                    OrderLog(witem.LogBuf, nowNano,
                                             BitAnd(witem.Value, UserMask)))>>
          /\ wpc' = "send"
          /\ Mem' = Mem
     ELSE \* no case of the switch matches: process returns
          /\ wres' = <<>>
          /\ wpc' = "reset"
          /\ UNCHANGED <<Mem, UserVolume>>
  /\ handled' = IF wpc' = "reset" THEN Append(handled, witem) ELSE handled
  /\ UNCHANGED qvars
  /\ UNCHANGED avars
  /\ UNCHANGED <<lvars, svars>>
  /\ UNCHANGED <<whead, wtail, witem, wret, nowNano, ticks, chans, sends, received>>

\* t.Resp <- result: blocks while the channel is full, for ever on a nil channel
Send ==
  /\ wpc = "send"
  /\ witem.Resp # NilChan
  /\ Len(chans[witem.Resp]) < RespCap
  /\ chans' = [chans EXCEPT ![witem.Resp] = Append(@, wres[1])]
  /\ sends' = [sends EXCEPT ![witem.Resp] = @ + 1]
  /\ handled' = Append(handled, witem)
  /\ wres' = <<>>
  /\ wpc' = "reset"
  /\ UNCHANGED qvars
  /\ UNCHANGED avars
  /\ UNCHANGED <<lvars, svars>>
  /\ UNCHANGED <<whead, wtail, witem, wret, Mem, UserVolume, nowNano, ticks, received>>

\* the loop going back to Pop without the reset
Reset_Skipped ==
  /\ wpc = "reset"
  /\ wpc' = "poll"
  /\ UNCHANGED qvars
  /\ UNCHANGED avars
  /\ UNCHANGED <<lvars, svars>>
  /\ UNCHANGED <<whead, wtail, witem, wret, wres, Mem, UserVolume, nowNano, ticks,
                 chans, sends, handled, received>>

\* e.Mem.Reset()
Reset ==
  /\ wpc = "reset"
  /\ Mem' = [offset |-> 0]
  /\ wpc' = "poll"
  /\ UNCHANGED qvars
  /\ UNCHANGED avars
  /\ UNCHANGED <<lvars, svars>>
  /\ UNCHANGED <<whead, wtail, witem, wret, wres, UserVolume, nowNano, ticks, chans,
                 sends, handled, received>>

Worker ==
  \/ Pop
  \/ Process
  \/ Send
  \/ Reset

\* result := <-respChan in the handler that pushed the task
Receive(c) ==
  /\ Len(chans[c]) > 0
  /\ received[c] = <<>>
  /\ received' = [received EXCEPT ![c] = <<Head(chans[c])>>]
  /\ chans' = [chans EXCEPT ![c] = Tail(@)]
  /\ UNCHANGED qvars
  /\ UNCHANGED avars
  /\ UNCHANGED <<lvars, svars>>
  /\ UNCHANGED <<wpc, whead, wtail, witem, wret, wres, Mem, UserVolume, nowNano, ticks,
                 sends, handled>>

\* the ticker goroutine of sysclock: nowNano.Store(t.UnixNano())
Tick ==
  /\ ticks < MaxTicks
  /\ ticks' = ticks + 1
  /\ nowNano' = nowNano + 1
  /\ UNCHANGED qvars
  /\ UNCHANGED avars
  /\ UNCHANGED <<lvars, svars>>
  /\ UNCHANGED <<wpc, whead, wtail, witem, wret, wres, Mem, UserVolume, chans, sends,
                 handled, received>>

Next ==
  \/ \E p \in producers : Push(p)
  \/ Worker
  \/ \E c \in ChanIds : Receive(c)
  \/ Tick

Spec == Init /\ [][Next]_vars

\* two handlers of main.go inside Push at once, no serialization
InitMP ==
  /\ producers = {1, 2}
  /\ InitQueue
  /\ InitProducerState
  /\ InitEngine
  /\ InitArenaState
  /\ InitAlone

\* the two requests: /calc?val=50 and /order?p=100&q=5&uid=1025
MPInput(p, ch) ==
  IF p = 1 THEN CalcTask(50, ch) ELSE OrderTask(100, 5, 1025, ch)

NextMP ==
  \/ \E p \in producers :
        PushLoadHead(p) /\ pitem'[p] = MPInput(p, nextId) /\ nextId' <= MPTasks + 1
  \/ \E p \in producers :
        PushLoadTail(p) \/ PushWrite(p) \/ PushWrite2(p) \/ PushAdd(p)
  \/ Worker
  \/ \E c \in ChanIds : Receive(c)

SpecMP == InitMP /\ [][NextMP]_vars

\* the queue at any point of its life: both indices have advanced to h0
InitWrap ==
  /\ producers = {1}
  /\ \E h0 \in 0 .. (IdxMod - 1) : head = h0 /\ tail = h0
  /\ buffer = [i \in Slots |-> ZeroTask]
  /\ pushed = <<>>
  /\ pushedIdx = <<>>
  /\ popped = <<>>
  /\ poppedIdx = <<>>
  /\ InitProducerState
  /\ InitEngine
  /\ InitArenaState
  /\ InitAlone

\* the requests are /calc?val=50
NextWrap ==
  \/ \E p \in producers : PushLoadHead(p) /\ pitem'[p] = CalcTask(50, nextId)
  \/ \E p \in producers :
        PushLoadTail(p) \/ PushWrite(p) \/ PushWrite2(p) \/ PushAdd(p)
  \/ Worker
  \/ \E c \in ChanIds : Receive(c)

SpecWrap == InitWrap /\ [][NextWrap]_vars

\* one producer pushing tasks of every kind
NextWide ==
  \/ \E p \in producers :
        \E item \in WideInputs(nextId) : PushItem(p, item) /\ nextId' <= WideTasks + 1
  \/ \E p \in producers :
        PushLoadTail(p) \/ PushWrite(p) \/ PushWrite2(p) \/ PushAdd(p)
  \/ Worker
  \/ \E c \in ChanIds : Receive(c)
  \/ Tick

SpecWide == Init /\ [][NextWide]_vars

\* one producer and the worker loop, each request with its own channel; the
\* worker goroutine and the handlers' receives are scheduled again and again
NextLoop ==
  \/ \E p \in producers :
        \E item \in TaskInputs(nextId) : PushItem(p, item) /\ nextId' <= LoopTasks + 1
  \/ \E p \in producers :
        PushLoadTail(p) \/ PushWrite(p) \/ PushWrite2(p) \/ PushAdd(p)
  \/ Worker
  \/ \E c \in ChanIds : Receive(c)
  \/ Tick

SpecLoop ==
  /\ Init
  /\ [][NextLoop]_vars
  /\ WF_vars(Worker)
  /\ \A c \in ChanIds : WF_vars(Receive(c))

\* ------------------------------------- the queue called from one goroutine
\* a call and what it returned: the item given or returned, the boolean, the
\* index it worked at, and whether head = tail when it was made
QueueCall(op, item, ok, at, empty) ==
  [op |-> op, item |-> item, ok |-> ok, at |-> at, empty |-> empty]

\* the last two calls
Latest(h, call) == IF Len(h) < 2 THEN Append(h, call) ELSE <<h[2], call>>

\* rb.Push(item), from its first line to its return
PushCall(p) ==
  /\ ppc[p] = "idle"
  /\ nextId <= MaxTasks
  /\ nextId' = nextId + 1
  /\ \E item \in TaskInputs(nextId) :
       /\ pitem' = [pitem EXCEPT ![p] = item]
       /\ IF PushFull(head, tail)
          THEN /\ pret' = [pret EXCEPT ![p] = "false"]
               /\ UNCHANGED <<buffer, head, pushed, pushedIdx>>
          ELSE /\ buffer' = [buffer EXCEPT ![PushSlot(head)] = item]
               /\ head' = PushNewHead(head, head)
               /\ pushed' = Append(pushed, item)
               /\ pushedIdx' = Append(pushedIdx, head)
               /\ pret' = [pret EXCEPT ![p] = "true"]
       /\ hist' = Latest(hist, QueueCall("Push", item, ~PushFull(head, tail),
                                         head, head = tail))
  /\ phead' = [phead EXCEPT ![p] = head]
  /\ ptail' = [ptail EXCEPT ![p] = tail]
  /\ pcall' = [pcall EXCEPT ![p] = [head |-> head, tail |-> tail, buffer |-> buffer]]
  /\ UNCHANGED <<producers, tail, ppc, phalf, popped, poppedIdx>>
  /\ UNCHANGED <<wvars, avars, lvars>>

\* rb.Pop(), from its first line to its return
PopCall ==
  /\ wpc = "poll"
  /\ whead' = head
  /\ wtail' = tail
  /\ IF PopEmpty(head, tail)
     THEN /\ wret' = "empty"
          /\ witem' = ZeroTask
          /\ UNCHANGED <<tail, popped, poppedIdx>>
     ELSE /\ wret' = "item"
          /\ witem' = buffer[PopSlot(tail)]
          /\ tail' = AddUint64(tail)
          /\ popped' = Append(popped, buffer[PopSlot(tail)])
          /\ poppedIdx' = Append(poppedIdx, tail)
  /\ hist' = Latest(hist, QueueCall("Pop", witem', ~PopEmpty(head, tail),
                                    tail, head = tail))
  /\ UNCHANGED <<producers, buffer, head, ppc, phead, ptail, pitem, phalf, pret,
                 pcall, nextId, pushed, pushedIdx>>
  /\ UNCHANGED <<wpc, wres, Mem, UserVolume, nowNano, ticks, chans, sends, handled,
                 received>>
  /\ UNCHANGED <<avars, lvars>>

NextSeq ==
  \/ \E p \in producers : PushCall(p)
  \/ PopCall

\* a new queue, or one whose indices are two short of the end of their range
InitSeq ==
  /\ producers = {1}
  /\ \E h0 \in {0, IdxMod - 2} : head = h0 /\ tail = h0
  /\ buffer = [i \in Slots |-> ZeroTask]
  /\ pushed = <<>>
  /\ pushedIdx = <<>>
  /\ popped = <<>>
  /\ poppedIdx = <<>>
  /\ InitProducerState
  /\ InitEngine
  /\ InitArenaState
  /\ InitAlone

\* one goroutine calls Push and Pop one after the other
SpecSeq == InitSeq /\ [][NextSeq]_vars

\* the worker goroutine is scheduled, and so is each handler blocked on its
\* channel once a value is there
FairSpec ==
  /\ Spec
  /\ WF_vars(Worker)
  /\ \A c \in ChanIds : WF_vars(Receive(c))

\* ------------------------------------------------- a Logger used on its own
\* number of calls in one chain, the closing Msg included
MaxCalls == 3

LogKeys == {"ts", "uid"}
LogInts == {7, 0 - 12, 1025}
LogStrs == {"order", ""}
LogTexts == {"processed"}
LogBases ==
  {NilBuf, MakeBuf(1, LogBufCap), [mem |-> 1, cap |-> 8, bytes |-> "x=1 "]}

LogCall(op, key, int, str) == [op |-> op, key |-> key, int |-> int, str |-> str]

ChainOpen ==
  /\ Len(lcalls) < MaxCalls
  /\ lcalls # <<>> => lcalls[Len(lcalls)].op # "Msg"

\* l := zlog.Wrap(buf)
LoggerWrap ==
  /\ \E b \in LogBases : logger' = Wrap(b) /\ lbase' = b
  /\ lcalls' = <<>>
  /\ lret' = "none"
  /\ UNCHANGED <<qvars, wvars, avars, svars>>

\* l.Int(key, val)
LoggerInt ==
  /\ ChainOpen
  /\ \E key \in LogKeys, val \in LogInts :
       /\ logger' = [logger EXCEPT !.buf = LogInt(@, key, val)]
       /\ lcalls' = Append(lcalls, LogCall("Int", key, val, ""))
  /\ lret' = "l"
  /\ UNCHANGED lbase
  /\ UNCHANGED <<qvars, wvars, avars, svars>>

\* l.Str(key, val)
LoggerStr ==
  /\ ChainOpen
  /\ \E val \in LogStrs :
       /\ logger' = [logger EXCEPT !.buf = LogStr(@, "type", val)]
       /\ lcalls' = Append(lcalls, LogCall("Str", "type", 0, val))
  /\ lret' = "l"
  /\ UNCHANGED lbase
  /\ UNCHANGED <<qvars, wvars, avars, svars>>

\* l.Msg(msg)
LoggerMsg ==
  /\ ChainOpen
  /\ \E msg \in LogTexts :
       /\ logger' = [logger EXCEPT !.buf = LogMsg(@, msg)]
       /\ lcalls' = Append(lcalls, LogCall("Msg", "msg", 0, msg))
  /\ lret' = "none"
  /\ UNCHANGED lbase
  /\ UNCHANGED <<qvars, wvars, avars, svars>>

NextLog ==
  \/ LoggerWrap
  \/ LoggerInt
  \/ LoggerStr
  \/ LoggerMsg

SpecLog == Init /\ [][NextLog]_vars

\* ------------------------------------------------- the arena through its API
\* the element types T: unsafe.Sizeof and unsafe.Alignof of struct{}, byte
\* and int16
ElemTypes ==
  {[size |-> 0, align |-> 1], [size |-> 1, align |-> 1],
   [size |-> 2, align |-> 2]}

Capacities == (0 - 1) .. MaxCap
Lengths == 0 .. MaxLen

\* the clearing left out: the span keeps what the buffer held
Zeroed_Skipped(buf, start, sz) == buf

\* the bytes buf[start : start+sz] set to zero (buf[k] is byte k-1)
Zeroed(buf, start, sz) ==
  [i \in 1 .. Len(buf) |-> IF start < i /\ i <= start + sz THEN 0 ELSE buf[i]]

\* the bytes buf[start : start+sz] written through the returned reference
Dirtied(buf, start, sz) ==
  [i \in 1 .. Len(buf) |-> IF start < i /\ i <= start + sz THEN 1 ELSE buf[i]]

\* whether buf[start : start+sz] holds a nonzero byte
Stale(buf, start, sz) ==
  \E i \in (start + 1) .. (start + sz) : buf[i] # 0

\* &a.buf[i] panics unless 0 <= i < len(a.buf)
InRange(buf, i) == 0 <= i /\ i < Len(buf)

\* arena.New[T](a): the arena afterwards, how the call ended, where the object is
NewResult(a, sz, al) ==
  LET start == a.offset + Padding(a.offset, al) IN
  IF OutOfMemory(a.offset, Len(a.buf), sz, al)
  THEN [arena |-> a, outcome |-> "oom", start |-> start]
  ELSE IF ~InRange(a.buf, start)
  THEN [arena |-> [a EXCEPT !.offset = start], outcome |-> "panic", start |-> start]
  ELSE [arena |-> [buf |-> Zeroed(a.buf, start, sz), offset |-> start + sz],
        outcome |-> "ok", start |-> start]

\* arena.MakeSlice[T](a, length, capacity)
MakeSliceResult(a, elemSize, elemAlign, length, capacity) ==
  LET sz == elemSize * capacity
      start == a.offset + Padding(a.offset, elemAlign)
  IN
  IF OutOfMemory(a.offset, Len(a.buf), sz, elemAlign)
  THEN [arena |-> a, outcome |-> "oom", start |-> start]
  ELSE IF ~InRange(a.buf, start)
  THEN [arena |-> [a EXCEPT !.offset = start], outcome |-> "panic", start |-> start]
  ELSE IF capacity < 0
  THEN \* unsafe.Slice panics, after a.offset += size
       [arena |-> [a EXCEPT !.offset = start + sz], outcome |-> "panic", start |-> start]
  ELSE IF length < 0 \/ length > capacity
  THEN \* s[:length] panics, after the clearing loop
       [arena |-> [buf |-> Zeroed(a.buf, start, sz), offset |-> start + sz],
        outcome |-> "panic", start |-> start]
  ELSE [arena |-> [buf |-> Zeroed(a.buf, start, sz), offset |-> start + sz],
        outcome |-> "ok", start |-> start]

\* shape: whether the call asked for 0 <= length <= capacity
Called(op, outcome, sz, al, shape) ==
  [op |-> op, outcome |-> outcome, size |-> sz, align |-> al, shape |-> shape]

Allocated(r, sz, al) ==
  /\ r.outcome = "ok" => Len(spans) < MaxSpans
  /\ arena' = r.arena
  /\ spans' = IF r.outcome = "ok"
              THEN Append(spans, [start |-> r.start, size |-> sz, align |-> al])
              ELSE spans
  /\ stale' = (r.outcome = "ok" /\ Stale(arena.buf, r.start, sz))
  /\ held' = held

ArenaNew ==
  /\ held
  /\ \E T \in ElemTypes :
       /\ Allocated(NewResult(arena, T.size, T.align), T.size, T.align)
       /\ last' = Called("New", NewResult(arena, T.size, T.align).outcome,
                         T.size, T.align, TRUE)
  /\ UNCHANGED <<qvars, wvars, lvars, svars>>

ArenaMakeSlice ==
  /\ held
  /\ \E T \in ElemTypes, length \in Lengths, capacity \in Capacities :
       /\ Allocated(MakeSliceResult(arena, T.size, T.align, length, capacity),
                    T.size * capacity, T.align)
       /\ last' = Called("MakeSlice",
                         MakeSliceResult(arena, T.size, T.align, length, capacity).outcome,
                         T.size * capacity, T.align,
                         0 <= length /\ length <= capacity)
  /\ UNCHANGED <<qvars, wvars, lvars, svars>>

\* the caller stores into a span it was given in this epoch
ArenaWrite ==
  /\ held
  /\ \E k \in 1 .. Len(spans) :
       /\ spans[k].size > 0
       /\ arena' = [arena EXCEPT !.buf = Dirtied(@, spans[k].start, spans[k].size)]
       /\ last' = Called("Write", "ok", spans[k].size, spans[k].align, TRUE)
  /\ stale' = FALSE
  /\ UNCHANGED <<held, spans>>
  /\ UNCHANGED <<qvars, wvars, lvars, svars>>

\* a.offset = 0
ArenaReset ==
  /\ held
  /\ arena' = [arena EXCEPT !.offset = 0]
  /\ spans' = <<>>
  /\ last' = Called("Reset", "ok", 0, 1, TRUE)
  /\ stale' = FALSE
  /\ held' = held
  /\ UNCHANGED <<qvars, wvars, lvars, svars>>

\* a.Reset(); arenaPool.Put(a)
ArenaRelease ==
  /\ held
  /\ arena' = [arena EXCEPT !.offset = 0]
  /\ spans' = <<>>
  /\ last' = Called("Release", "ok", 0, 1, TRUE)
  /\ stale' = FALSE
  /\ held' = FALSE
  /\ UNCHANGED <<qvars, wvars, lvars, svars>>

\* arenaPool.Get(): the arena put back, or a new one when the pool dropped it
ArenaAcquire ==
  /\ ~held
  /\ arena' \in {arena, FreshArena}
  /\ spans' = <<>>
  /\ last' = Called("Acquire", "ok", 0, 1, TRUE)
  /\ stale' = FALSE
  /\ held' = TRUE
  /\ UNCHANGED <<qvars, wvars, lvars, svars>>

NextArena ==
  \/ ArenaNew
  \/ ArenaMakeSlice
  \/ ArenaWrite
  \/ ArenaReset
  \/ ArenaRelease
  \/ ArenaAcquire

SpecArena == Init /\ [][NextArena]_vars

\* ----------------------------------------------------------------- properties
Range(s) == {s[i] : i \in 1 .. Len(s)}

IsPrefix(s, t) ==
  /\ Len(s) <= Len(t)
  /\ \A i \in 1 .. Len(s) : s[i] = t[i]

\* C1: with one producer and one consumer, the items the successful Pops
\* returned are a prefix of the items the successful Pushes accepted, in the
\* same order, and no item is returned twice.
QueueFIFO ==
  /\ IsPrefix(popped, pushed)
  /\ \A i, j \in 1 .. Len(popped) : i # j => popped[i] # popped[j]

QueueFIFO_Witness ==
  /\ Len(popped) >= 3
  /\ popped = pushed
  /\ \E p \in producers : pret[p] = "true"

\* C2: every task process has returned from got exactly one send on its Resp
\* channel.
ExactlyOneSend ==
  \A k \in 1 .. Len(handled) :
    handled[k].Resp # NilChan => sends[handled[k].Resp] = 1

\* C3: every task whose Push returned true is eventually popped by the worker,
\* and the caller waiting on its Resp channel eventually receives a result.
AcceptedIsDelivered ==
  \A c \in ChanIds :
    (\E k \in 1 .. Len(pushed) : pushed[k].Resp = c)
      ~> (/\ \E k \in 1 .. Len(popped) : popped[k].Resp = c
          /\ received[c] # <<>>)

\* C4: Push returns false exactly when head - tail = capacity at the moment it
\* reads the indices; a failing Push leaves head and every slot as they were; a
\* succeeding Push advances head by one and changes only the slot head & mask,
\* which then holds the item; no step of Push changes tail, and Push is never
\* blocked.
PushContract ==
  \A p \in producers :
    /\ pret[p] = "false" =>
         /\ U(pcall[p].head - pcall[p].tail) = size
         /\ head = pcall[p].head
         /\ buffer = pcall[p].buffer
    /\ pret[p] = "true" =>
         /\ U(pcall[p].head - pcall[p].tail) # size
         /\ head = U(pcall[p].head + 1)
         /\ \A i \in Slots :
              i # BitAnd(pcall[p].head, mask) => buffer[i] = pcall[p].buffer[i]
         /\ buffer[BitAnd(pcall[p].head, mask)] = pitem[p]
    /\ ppc[p] # "idle" => ENABLED Push(p)

PushBackpressure ==
  /\ []PushContract
  /\ [][\A p \in producers : Push(p) => tail' = tail]_vars

PushBackpressure_Witness ==
  \E p \in producers :
    /\ pret[p] = "false"
    /\ Len(pushed) = size
    /\ buffer = pcall[p].buffer

\* C5: Pop returns empty exactly when head = tail at the moment it reads the
\* indices, for all values the indices can take.
PopEmptyIffEqual ==
  /\ wret = "empty" => whead = wtail
  /\ wret = "item" => whead # wtail

\* C6: with one producer and one consumer, 0 <= head - tail <= capacity.
QueueOccupancy ==
  /\ U(head - tail) >= 0
  /\ U(head - tail) <= size
  /\ U(head - tail) = Len(pushed) - Len(popped)

QueueOccupancy_Witness ==
  /\ U(head - tail) = size
  /\ Len(popped) >= 1

\* C7: when two callers run Push at once, the index arithmetic is corrupted:
\* once two Pushes that returned true wrote at the same index, head counts an
\* index that no accepted Push wrote, whose slot the consumer pops.
SameIndexAccepted ==
  \E j, k \in 1 .. Len(pushed) : j # k /\ pushedIdx[j] = pushedIdx[k]

Unwritten(i) == \A k \in 1 .. Len(pushed) : pushedIdx[k] # i

Overwritten(k) ==
  /\ pushed[k] \notin Range(popped)
  /\ ~(wpc = "add" /\ witem = pushed[k])
  /\ buffer[BitAnd(pushedIdx[k], mask)] # pushed[k]

PhantomPop ==
  \E j \in 1 .. Len(popped) :
    \A k \in 1 .. Len(pushed) :
      ~(pushedIdx[k] = poppedIdx[j] /\ pushed[k] = popped[j])

MultiProducerCorrupts ==
  SameIndexAccepted => \E i \in 0 .. (head - 1) : Unwritten(i)

MultiProducerCorrupts_Witness ==
  /\ SameIndexAccepted
  /\ \E k \in 1 .. Len(pushed) : Overwritten(k)
  /\ PhantomPop
  /\ \E j \in 1 .. Len(popped) : Unwritten(poppedIdx[j])

\* C8: after any sequence of New, MakeSlice, Reset and Release calls,
\* 0 <= offset <= len(buf).
CursorInBounds ==
  /\ 0 <= arena.offset
  /\ arena.offset <= Len(arena.buf)

\* C9: every span returned since the last reset starts at a multiple of its
\* alignment and is disjoint from every span returned earlier in the epoch.
SpansDisjointAligned ==
  /\ \A k \in 1 .. Len(spans) : spans[k].start % spans[k].align = 0
  /\ \A j, k \in 1 .. Len(spans) :
       j < k =>
         \/ spans[j].start + spans[j].size <= spans[k].start
         \/ spans[k].start + spans[k].size <= spans[j].start

\* C10: an allocation (New, or MakeSlice with 0 <= length <= capacity) made
\* with the cursor inside the region fails with out of memory exactly when
\* padding + size exceeds len(buf) - offset; a failed allocation leaves the
\* cursor and the bytes as they were; every allocation within the remaining
\* capacity succeeds.
AllocationStep ==
  LET need == Padding(arena.offset, last'.align) + last'.size
      remaining == Len(arena.buf) - arena.offset
  IN
  last'.op \in {"New", "MakeSlice"} /\ last'.shape /\ CursorInBounds =>
    /\ last'.outcome = "oom" <=> need > remaining
    /\ last'.outcome # "ok" => arena' = arena
    /\ need <= remaining => last'.outcome = "ok"

AllocationExhaustion == [][AllocationStep]_vars

\* C11: Reset sets the cursor to zero and leaves every byte of the region as it
\* was, and every span New or MakeSlice returns reads as zero over its whole
\* allocated size, whatever an earlier epoch wrote there.
ZeroFillStep ==
  /\ last'.op = "Reset" => arena'.offset = 0 /\ arena'.buf = arena.buf
  /\ last'.op \in {"New", "MakeSlice"} /\ last'.outcome = "ok" =>
       LET s == spans'[Len(spans')] IN
       \A i \in (s.start + 1) .. (s.start + s.size) : arena'.buf[i] = 0

ZeroFillAcrossEpochs == [][ZeroFillStep]_vars

\* a span handed out over bytes an earlier epoch left nonzero
ZeroFillAcrossEpochs_Witness ==
  /\ last.op \in {"New", "MakeSlice"}
  /\ last.outcome = "ok"
  /\ stale
  /\ Len(spans) = 1
  /\ spans[1].size >= 2
  /\ \A i \in (spans[1].start + 1) .. (spans[1].start + spans[1].size) :
       arena.buf[i] = 0

\* the accepted task whose completion channel is c
TaskOf(c) == pushed[CHOOSE k \in 1 .. Len(pushed) : pushed[k].Resp = c]

\* C12: what process publishes on the completion channel of a scale task with
\* input v is the integer 2*v; for an aggregate task it is an OrderResult whose
\* Total is price*quantity and whose ProcessedAt is the value the clock cache
\* held when process read it for that task.
DispatchStep ==
  /\ wpc = "process" /\ wpc' = "send" /\ witem.Type = TaskTypeOrder =>
       wres'[1].ProcessedAt = nowNano
  /\ \A c \in ChanIds :
       Len(chans'[c]) > Len(chans[c]) =>
         LET v == chans'[c][Len(chans'[c])]
             t == TaskOf(c)
         IN
         /\ v = wres[1]
         /\ t.Type = TaskTypeCalc => v.kind = "int" /\ v.Int = 2 * t.Value
         /\ t.Type = TaskTypeOrder =>
              /\ v.kind = "OrderResult"
              /\ v.Total = t.Price * t.Quantity

DispatchResults == [][DispatchStep]_vars

\* the tasks whose handler has updated the table, in order
Processed == IF wpc = "send" THEN Append(handled, witem) ELSE handled

\* what a processed task adds to slot s
Contribution(t, s) ==
  IF t.Type = TaskTypeOrder /\ t.Value % (UserMask + 1) = s
  THEN t.Price * t.Quantity
  ELSE IF t.Type = TaskTypeCalc /\ s = 0 THEN 2 * t.Value
  ELSE 0

RECURSIVE SumContributions(_, _)
SumContributions(ts, s) ==
  IF ts = <<>> THEN 0
  ELSE Contribution(Head(ts), s) + SumContributions(Tail(ts), s)

\* C13: every slot s of UserVolume holds the sum of price*quantity over the
\* processed aggregate tasks with id & 1023 = s, plus, for slot 0, the sum of
\* the doubled values of the processed scale tasks; the table changes only in
\* a step of process, which writes one slot, inside 0..1023, and leaves the
\* others as they were.
VolumeAccounting ==
  /\ DOMAIN UserVolume \subseteq 0 .. UserMask
  /\ \A s \in 0 .. UserMask :
       VolumeAt(UserVolume, s) = SumContributions(Processed, s)

VolumeFrame ==
  UserVolume' # UserVolume =>
    /\ wpc = "process"
    /\ \E i \in 0 .. UserMask :
         /\ DOMAIN UserVolume' = DOMAIN UserVolume \cup {i}
         /\ \A s \in 0 .. UserMask :
              s # i => VolumeAt(UserVolume', s) = VolumeAt(UserVolume, s)

StateTableAccounting == []VolumeAccounting /\ [][VolumeFrame]_vars

\* the decimal text of the integers given to Int
Decimal(n) ==
  CASE n = 7 -> "7"
    [] n = 0 - 12 -> "-12"
    [] n = 1025 -> "1025"

Token(c) ==
  IF c.op = "Int" THEN c.key \o "=" \o Decimal(c.int) \o " "
  ELSE IF c.op = "Str" THEN c.key \o "=" \o c.str \o " "
  ELSE "msg=" \o c.str \o "\n"

RECURSIVE Tokens(_)
Tokens(calls) ==
  IF calls = <<>> THEN "" ELSE Token(Head(calls)) \o Tokens(Tail(calls))

ExampleChain ==
  <<LogCall("Int", "ts", 7, ""), LogCall("Str", "type", 0, "order"),
    LogCall("Msg", "msg", 0, "processed")>>

\* C14: after Wrap on a buffer holding B and any chain of Int and Str calls,
\* closed or not by Msg, Bytes() is B followed by the tokens of the calls in
\* order, "key=value " for Int (in decimal) and Str and "msg=text\n" for Msg;
\* Int and Str return the logger they were called on; the chain
\* Int("ts",7).Str("type","order").Msg("processed") on an empty buffer gives
\* "ts=7 type=order msg=processed\n".
LoggerOutput ==
  /\ Bytes(logger).bytes = lbase.bytes \o Tokens(lcalls)
  /\ lcalls # <<>> /\ lcalls[Len(lcalls)].op \in {"Int", "Str"} => lret = "l"
  /\ lcalls = ExampleChain /\ lbase.bytes = "" =>
       Bytes(logger).bytes = "ts=7 type=order msg=processed\n"

LoggerOutput_Witness ==
  /\ lbase.bytes = "x=1 "
  /\ Len(lcalls) = 3
  /\ lcalls[1].op = "Int" /\ lcalls[1].int < 0
  /\ lcalls[2].op = "Str"
  /\ lcalls[3].op = "Msg"
  /\ Bytes(logger).bytes = "x=1 uid=-12 type=order msg=processed\n"

\* the results published so far on channel c
Published(c) == Range(chans[c]) \cup Range(received[c])

\* C15: for an aggregate task submitted with a non-nil LogBuf, of any
\* capacity, the Log of its result lies in the array of that buffer: the
\* Logger has written nowhere else.
CallerOwnedLog ==
  \A c \in ChanIds :
    \A v \in Published(c) :
      v.kind = "OrderResult" /\ TaskOf(c).LogBuf.mem # NilMem =>
        /\ v.Log.mem = TaskOf(c).LogBuf.mem
        /\ Len(v.Log.bytes) <= TaskOf(c).LogBuf.cap

\* whether the bytes t occur in the bytes s
Contains(s, t) ==
  \E i \in 1 .. (Len(s) - Len(t) + 1) : SubSeq(s, i, i + Len(t) - 1) = t

\* C16: the result delivered for an aggregate task submitted with a log buffer
\* and an id carries a non-empty log with the token uid=<id> for the id the
\* task was submitted with and the token ts=<ProcessedAt of the result>.
EndToEndLog ==
  \A c \in ChanIds :
    \A v \in Range(received[c]) :
      v.kind = "OrderResult" /\ TaskOf(c).LogBuf.mem # NilMem =>
        /\ Len(v.Log.bytes) > 0
        /\ Contains(v.Log.bytes, "uid=" \o FormatInt(TaskOf(c).Value) \o " ")
        /\ Contains(v.Log.bytes, "ts=" \o FormatInt(v.ProcessedAt) \o " ")

\* a Push that returned true, immediately followed by a Pop
PushThenPop ==
  /\ Len(hist) = 2
  /\ hist[1].op = "Push" /\ hist[1].ok
  /\ hist[2].op = "Pop"

Writing == {p \in producers : ppc[p] \in {"write", "write2"}}

\* the accepted elements the consumer has not yet returned
Unread == (Len(popped) + 1) .. Len(pushed)

\* C18: with one producer and one consumer interleaved step by step, the slot
\* the consumer is about to read holds the whole element accepted for that
\* index and no Push is writing it; a Push never writes the slot of an element
\* the consumer has not yet returned; head moves only after the slot copy is
\* complete and tail only after the slot has been read.
HandOffState ==
  /\ wpc = "read" =>
       /\ Unread # {}
       /\ pushedIdx[Len(popped) + 1] = wtail
       /\ buffer[PopSlot(wtail)] = pushed[Len(popped) + 1]
       /\ \A p \in Writing : PushSlot(phead[p]) # PopSlot(wtail)
  /\ \A p \in Writing :
       \A k \in Unread : PushSlot(pushedIdx[k]) # PushSlot(phead[p])

HandOffStep ==
  /\ head' # head =>
       \E p \in producers :
         /\ ppc[p] = "add"
         /\ buffer[PushSlot(phead[p])] = pitem[p]
         /\ buffer' = buffer
  /\ tail' # tail =>
       /\ wpc = "add"
       /\ witem = pushed[Len(popped) + 1]
       /\ PopSlot(wtail) = PushSlot(pushedIdx[Len(popped) + 1])

SlotHandOff == []HandOffState /\ [][HandOffStep]_vars

\* the consumer is about to read one slot while the producer is half way
\* through the copy into the other
SlotHandOff_Witness ==
  /\ wpc = "read"
  /\ \E p \in producers : ppc[p] = "write2"
  /\ Len(popped) >= 1

\* the state of the worker loop
Phase(pc) ==
  IF pc \in {"poll", "load_tail", "read", "add"} THEN "Polling"
  ELSE IF pc \in {"process", "send"} THEN "Dispatching"
  ELSE "Resetting"

\* C19: the worker loop goes Polling -> Dispatching -> Resetting -> Polling:
\* a successful Pop is followed by one run of process and then one Reset
\* before the next Pop, so the arena cursor is 0 whenever the worker is
\* polling and at most one popped task is unfinished; an empty poll goes back
\* to polling and leaves the arena and the state table as they were.
WorkerCycleState ==
  /\ Phase(wpc) = "Polling" => Mem.offset = 0 /\ Len(handled) = Len(popped)
  /\ Phase(wpc) = "Dispatching" => Len(handled) = Len(popped) - 1
  /\ Phase(wpc) = "Resetting" => Len(handled) = Len(popped)

WorkerCycleStep ==
  /\ \/ Phase(wpc') = Phase(wpc)
     \/ /\ Phase(wpc) = "Polling" /\ Phase(wpc') = "Dispatching"
        /\ Len(popped') = Len(popped) + 1
     \/ /\ Phase(wpc) = "Dispatching" /\ Phase(wpc') = "Resetting"
        /\ Len(handled') = Len(handled) + 1
     \/ /\ Phase(wpc) = "Resetting" /\ wpc' = "poll"
        /\ Mem'.offset = 0
  /\ Phase(wpc) = "Polling" /\ Phase(wpc') = "Polling" =>
       UNCHANGED <<Mem, UserVolume, popped, handled>>
  /\ wret' = "empty" /\ wret # "empty" => wpc' = "poll"

ResetAfterEveryTask == []WorkerCycleState /\ [][WorkerCycleStep]_vars

\* back at polling, on an empty queue, after two tasks of which one allocated
ResetAfterEveryTask_Witness ==
  /\ wpc = "poll"
  /\ wret = "empty"
  /\ Len(handled) >= 2
  /\ \E k \in 1 .. Len(handled) : handled[k].Type = TaskTypeCalc
  /\ Mem.offset = 0

\* C20: when every task carries its own new completion channel of capacity
\* one, the worker loop has an enabled step in every reachable state (the send
\* in process does not block, the allocation of the scale handler does not run
\* out of memory), and the worker is back at polling again and again.
WorkerNeverBlocks ==
  /\ [](ENABLED Worker)
  /\ []<>(wpc = "poll")

\* the worker back at polling after it has sent the results of a scale task
\* and of an aggregate task
WorkerNeverBlocks_Witness ==
  /\ wpc = "poll"
  /\ Len(handled) = LoopTasks
  /\ \E k \in 1 .. Len(handled) :
       handled[k].Type = TaskTypeCalc /\ sends[handled[k].Resp] = 1
  /\ \E k \in 1 .. Len(handled) :
       handled[k].Type = TaskTypeOrder /\ sends[handled[k].Resp] = 1

====
